---- MODULE Spec2Model ----
(***************************************************************************)
(* A model of src/evaluation.rs: evaluate_rpn, the single-pass evaluator   *)
(* of space-delimited RPN expressions over i32.                            *)
(*                                                                         *)
(* A character is a one-character string, a string a sequence of them.     *)
(* An i32 is an integer in INT_MIN..INT_MAX; the checked operations decide *)
(* overflow by comparisons that never leave that range themselves.         *)
(***************************************************************************)
EXTENDS Integers, Sequences, FiniteSets, TLC

VARIABLES
    input,   \* the argument of evaluate_rpn
    chars,   \* what the iterator input.chars() has still to yield
    value1,  \* let mut value1: i32
    value2,  \* let mut value2: i32
    step,    \* let mut step: EvaluationStep
    result,  \* the EvaluationResult returned, NoResult before the return
    pc       \* "entry" at the call, "loop" in the for loop, "done" once returned

vars == <<input, chars, value1, value2, step, result, pc>>

(***************************************************************************)
(* Bounds of the model.                                                    *)
(***************************************************************************)
\* the longest input drawn character by character from Alphabet
MaxLen == 3

\* the most tokens of an input drawn as tokens joined by single spaces
MaxTokens == 3

\* the most ' n op' groups of an input drawn as a chain of tokens
MaxGroups == 2

\* the longest input drawn as a chain of tokens
MaxChainLen == 20

\* the longest continuation an input read so far is extended by
MaxContinuation == 1
MaxCallTokens == 1      \* tokens in an input of a sequence of calls
MaxPad == 2             \* spaces put before and after an input

(***************************************************************************)
(* i32                                                                     *)
(***************************************************************************)
INT_MAX == 2147483647

INT_MIN == (-INT_MAX) - 1

None == [some |-> FALSE]

Some(v) == [some |-> TRUE, val |-> v]

\* i32::checked_add: None exactly when a + b leaves INT_MIN..INT_MAX
checked_add(a, b) ==
    IF b >= 0
    THEN IF a > INT_MAX - b THEN None ELSE Some(a + b)
    ELSE IF a < INT_MIN - b THEN None ELSE Some(a + b)

\* i32::checked_sub: None exactly when a - b leaves INT_MIN..INT_MAX
checked_sub(a, b) ==
    IF b >= 0
    THEN IF a < INT_MIN + b THEN None ELSE Some(a - b)
    ELSE IF a > INT_MAX + b THEN None ELSE Some(a - b)

\* i32::checked_mul: None exactly when a * b leaves INT_MIN..INT_MAX
checked_mul(a, b) ==
    IF a = 0 \/ b = 0 THEN Some(0)
    ELSE IF a > 0 /\ b > 0
         THEN IF a > INT_MAX \div b THEN None ELSE Some(a * b)
    ELSE IF a > 0 /\ b < 0
         \* a * b >= INT_MIN  iff  b >= ceil(INT_MIN / a)
         THEN IF b < (INT_MIN + a - 1) \div a THEN None ELSE Some(a * b)
    ELSE IF a < 0 /\ b > 0
         THEN IF a < (INT_MIN + b - 1) \div b THEN None ELSE Some(a * b)
    ELSE IF a = INT_MIN \/ b = INT_MIN THEN None
    ELSE IF (-a) > INT_MAX \div (-b) THEN None ELSE Some(a * b)

\* the quotient of a by b rounded down
FloorDiv(a, b) == IF b > 0 THEN a \div b ELSE (-a) \div (-b)

\* the quotient of a by b rounded toward zero, b # 0 and (a, b) # (INT_MIN, -1)
TruncDiv(a, b) ==
    IF b > 0
    THEN IF a >= 0 THEN a \div b ELSE (a + b - 1) \div b
    ELSE IF b = INT_MIN THEN (IF a = INT_MIN THEN 1 ELSE 0)
    ELSE IF a <= 0 THEN -((a + (-b) - 1) \div (-b))
    ELSE -(a \div (-b))

\* i32::checked_div: None when b = 0 and for INT_MIN / -1
checked_div(a, b) ==
    IF b = 0 THEN None
    ELSE IF a = INT_MIN /\ b = -1 THEN None
    ELSE Some(TruncDiv(a, b))

(***************************************************************************)
(* Characters                                                              *)
(***************************************************************************)
DigitChars == <<"0", "1", "2", "3", "4", "5", "6", "7", "8", "9">>

\* char::is_ascii_hexdigit, on the characters of the model
is_ascii_hexdigit(c) == c = "a" \/ \E i \in 1..Len(DigitChars) : DigitChars[i] = c

\* char::is_ascii_digit
is_ascii_digit(c) == \E i \in 1..Len(DigitChars) : DigitChars[i] = c

\* char::to_digit(10): Some(d) for a decimal digit, None for any other character
to_digit(c) ==
    IF \E i \in 1..Len(DigitChars) : DigitChars[i] = c
    THEN Some((CHOOSE i \in 1..Len(DigitChars) : DigitChars[i] = c) - 1)
    ELSE None

\* char::is_whitespace, as str::trim uses it, on the characters of the model
is_whitespace(c) == c \in {" ", "\t", "\n"}

RECURSIVE trim_start(_)
trim_start(s) ==
    IF s # <<>> /\ is_whitespace(Head(s)) THEN trim_start(Tail(s)) ELSE s

RECURSIVE trim_end(_)
trim_end(s) ==
    IF s # <<>> /\ is_whitespace(s[Len(s)])
    THEN trim_end(SubSeq(s, 1, Len(s) - 1))
    ELSE s

\* a trim that strips the leading whitespace only
trim_start_only(s) == trim_start(s)

\* str::trim
trim(s) == trim_end(trim_start(s))

(***************************************************************************)
(* EvaluationResult                                                        *)
(***************************************************************************)
Success(v) == [tag |-> "Success", value |-> v]

InvalidCharacterFound(c) == [tag |-> "InvalidCharacterFound", char |-> c]

FoundNonOperator(c) == [tag |-> "FoundNonOperator", char |-> c]

FoundNonDigit(c) == [tag |-> "FoundNonDigit", char |-> c]

InputNumberOverflow == [tag |-> "InputNumberOverflow"]

DivByZero == [tag |-> "DivByZero"]

Overflow(v1, v2, o) ==
    [tag |-> "Overflow", last_valid_value1 |-> v1, last_valid_value2 |-> v2,
     attempted_operation |-> o]

\* unwrap() of a None or an Err: the call unwinds and returns no EvaluationResult
Panic == [tag |-> "Panic"]

\* no return statement has run yet
NoResult == [tag |-> "NoResult"]

(***************************************************************************)
(* EvaluationStep and RpnOperator                                          *)
(***************************************************************************)
\* an advance that goes back to ReadingValue1 after an operator
advance_wrapping(s) ==
    CASE s = "ReadingValue1" -> "ReadingValue2"
      [] s = "ReadingValue2" -> "ReadingOperator"
      [] s = "ReadingOperator" -> "ReadingValue1"

advance(s) ==
    CASE s = "ReadingValue1" -> "ReadingValue2"
      [] s = "ReadingValue2" -> "ReadingOperator"
      [] s = "ReadingOperator" -> "ReadingValue2"

Ok(o) == [ok |-> TRUE, op |-> o]

Err(e) == [ok |-> FALSE, err |-> e]

\* <RpnOperator as TryFrom<char>>::try_from
try_from(value) ==
    CASE value = "+" -> Ok("Addition")
      [] value = "-" -> Ok("Subtraction")
      [] value = "*" -> Ok("Multiplication")
      [] value = "/" -> Ok("Division")
      [] OTHER -> Err(FoundNonOperator(value))

is_valid_rpn_operator(c) == try_from(c).ok

(***************************************************************************)
(* evaluate_rpn: the body of the loop, one match arm each, on the locals   *)
(* r = [value1, value2, step, result]. A result other than NoResult is a   *)
(* return.                                                                 *)
(***************************************************************************)
Locals(v1, v2, s, res) == [value1 |-> v1, value2 |-> v2, step |-> s, result |-> res]

Return(r, res) == [r EXCEPT !.result = res]

\* the space arm without the reset of value2
SpaceArmKeepsValue2(r) == [r EXCEPT !.step = advance(r.step)]

\* a space arm that resets value2 whatever the new step
SpaceArmResetsValue2(r) ==
    [r EXCEPT !.step = advance(r.step), !.value2 = 0]

\* ' ' => { step.advance(); if step == S::ReadingValue2 { value2 = 0; } }
SpaceArm(r) ==
    LET s == advance(r.step)
    IN  [r EXCEPT !.step = s,
                  !.value2 = IF s = "ReadingValue2" THEN 0 ELSE @]

\* the accumulation with a checked multiplication and a wrapping addition
AccumulateWrappingAdd(reg, digit) ==
    LET m == checked_mul(reg, 10)
    IN  IF ~m.some THEN None
        ELSE IF checked_add(m.val, digit).some THEN checked_add(m.val, digit)
        ELSE Some(((m.val - INT_MAX - 1) + digit) + INT_MIN)

\* reg = reg * 10 + digit, both checked
Accumulate(reg, digit) ==
    LET m == checked_mul(reg, 10)
    IN  IF m.some THEN checked_add(m.val, digit) ELSE None

\* the digit arm taking a digit read in ReadingOperator into value2
DigitArmNoOperatorCheck(r, c) ==
    LET d == to_digit(c)
    IN  IF ~d.some THEN Return(r, Panic)
        ELSE IF r.step = "ReadingValue1"
             THEN LET a == Accumulate(r.value1, d.val)
                  IN  IF a.some THEN [r EXCEPT !.value1 = a.val]
                      ELSE Return(r, InputNumberOverflow)
        ELSE LET a == Accumulate(r.value2, d.val)
             IN  IF a.some THEN [r EXCEPT !.value2 = a.val]
                 ELSE Return(r, InputNumberOverflow)

\* c if c.is_ascii_digit() => match step { ... }
DigitArm(r, c) ==
    CASE r.step = "ReadingValue1" ->
            LET d == to_digit(c)
            IN  IF ~d.some THEN Return(r, Panic)
                ELSE LET a == Accumulate(r.value1, d.val)
                     IN  IF a.some THEN [r EXCEPT !.value1 = a.val]
                         ELSE Return(r, InputNumberOverflow)
      [] r.step = "ReadingValue2" ->
            LET d == to_digit(c)
            IN  IF ~d.some THEN Return(r, Panic)
                ELSE LET a == Accumulate(r.value2, d.val)
                     IN  IF a.some THEN [r EXCEPT !.value2 = a.val]
                         ELSE Return(r, InputNumberOverflow)
      [] r.step = "ReadingOperator" -> Return(r, FoundNonOperator(c))

\* the checked operation the operator o stands for
Checked(o, a, b) ==
    CASE o = "Addition" -> checked_add(a, b)
      [] o = "Subtraction" -> checked_sub(a, b)
      [] o = "Multiplication" -> checked_mul(a, b)
      [] o = "Division" -> checked_div(a, b)

\* the operator applied and the step advanced after it
ApplyOperatorAdvances(r, o) ==
    LET res == Checked(o, r.value1, r.value2)
    IN  IF res.some THEN [r EXCEPT !.value1 = res.val, !.step = advance(r.step)]
        ELSE IF o = "Division" /\ r.value2 = 0 THEN Return(r, DivByZero)
        ELSE Return(r, Overflow(r.value1, r.value2, o))

\* the operator applied and its value stored in value2 as well
ApplyOperatorIntoBoth(r, o) ==
    LET res == Checked(o, r.value1, r.value2)
    IN  IF res.some THEN [r EXCEPT !.value1 = res.val, !.value2 = res.val]
        ELSE IF o = "Division" /\ r.value2 = 0 THEN Return(r, DivByZero)
        ELSE Return(r, Overflow(r.value1, r.value2, o))

\* the operator applied, an overflow reported with its two operands swapped
ApplyOperatorSwapsOperands(r, o) ==
    LET res == Checked(o, r.value1, r.value2)
    IN  IF res.some THEN [r EXCEPT !.value1 = res.val]
        ELSE IF o = "Division" /\ r.value2 = 0 THEN Return(r, DivByZero)
        ELSE Return(r, Overflow(r.value2, r.value1, o))

\* S::ReadingOperator => match o { ... }
ApplyOperator(r, o) ==
    LET res == Checked(o, r.value1, r.value2)
    IN  IF res.some THEN [r EXCEPT !.value1 = res.val]
        ELSE IF o = "Division" /\ r.value2 = 0 THEN Return(r, DivByZero)
        ELSE Return(r, Overflow(r.value1, r.value2, o))

\* the operator arm applying the operator whatever the step
OperatorArmAnyStep(r, c) ==
    LET t == try_from(c)
    IN  IF ~t.ok THEN Return(r, Panic) ELSE ApplyOperator(r, t.op)

\* c if c.is_valid_rpn_operator() => { ... }
OperatorArm(r, c) ==
    LET t == try_from(c)
    IN  IF ~t.ok THEN Return(r, Panic)
        ELSE IF r.step = "ReadingOperator" THEN ApplyOperator(r, t.op)
        ELSE Return(r, FoundNonDigit(c))

\* the last arm reporting by step, as the operator conversion's error would
InvalidArmByStep(r, c) ==
    IF r.step = "ReadingOperator" THEN Return(r, try_from(c).err)
    ELSE Return(r, InvalidCharacterFound(c))

\* invalid => return ER::InvalidCharacterFound(invalid)
InvalidArm(r, c) == Return(r, InvalidCharacterFound(c))

\* the match taking every whitespace character for a delimiter
LoopBodyAnyWhitespace(r, c) ==
    IF is_whitespace(c) THEN SpaceArm(r)
    ELSE IF is_ascii_digit(c) THEN DigitArm(r, c)
    ELSE IF is_valid_rpn_operator(c) THEN OperatorArm(r, c)
    ELSE InvalidArm(r, c)

\* match c { ... }: the first arm whose pattern and guard accept c
LoopBody(r, c) ==
    IF c = " " THEN SpaceArm(r)
    ELSE IF is_ascii_digit(c) THEN DigitArm(r, c)
    ELSE IF is_valid_rpn_operator(c) THEN OperatorArm(r, c)
    ELSE InvalidArm(r, c)

\* a loop that goes on after an error and returns the last result it met
RECURSIVE LoopReportsLast(_, _)
LoopReportsLast(r, cs) ==
    IF cs = <<>> THEN (IF r.result # NoResult THEN r.result ELSE Success(r.value1))
    ELSE LET n == LoopBody([r EXCEPT !.result = NoResult], Head(cs))
         IN  LoopReportsLast(IF n.result = NoResult THEN [n EXCEPT !.result = r.result]
                             ELSE n, Tail(cs))

\* for c in input.chars() { ... } ER::Success(value1)
RECURSIVE Loop(_, _)
Loop(r, cs) ==
    IF r.result # NoResult THEN r.result
    ELSE IF cs = <<>> THEN Success(r.value1)
    ELSE Loop(LoopBody(r, Head(cs)), Tail(cs))

\* the locals as the loop leaves them: at a return statement or when the
\* iterator is exhausted
RECURSIVE LoopLocals(_, _)
LoopLocals(r, cs) ==
    IF r.result # NoResult \/ cs = <<>> THEN r
    ELSE LoopLocals(LoopBody(r, Head(cs)), Tail(cs))

\* the locals as the three let statements leave them
InitialLocals == Locals(0, 0, "ReadingValue1", NoResult)

\* evaluate_rpn as a function of its argument
evaluate_rpn(s) == Loop(InitialLocals, trim(s))

(***************************************************************************)
(* The inputs of the model                                                 *)
(***************************************************************************)
Alphabet == {" ", "\t", "\n", "0", "1", "3", "+", "-", "*", "/", "a"}

RECURSIVE StringsUpTo(_)
StringsUpTo(n) ==
    IF n = 0 THEN {<<>>}
    ELSE LET shorter == StringsUpTo(n - 1)
         IN  shorter \cup {Append(s, c) : s \in {t \in shorter : Len(t) = n - 1},
                                            c \in Alphabet}

ShortInputs == StringsUpTo(MaxLen)

\* tokens, well formed and not, the empty one making a run of spaces
Tokens ==
    { <<>>, <<"0">>, <<"3">>, <<"1", "2">>, <<"+">>, <<"-">>, <<"*">>, <<"/">>,
      <<"+", "-">>, <<"a">>, <<"\t">> }

RECURSIVE TokenStrings(_)
TokenStrings(k) ==
    IF k = 1 THEN Tokens
    ELSE { s \o <<" ">> \o t : s \in TokenStrings(k - 1), t \in Tokens }

TokenInputs == UNION { TokenStrings(k) : k \in 1..MaxTokens }

\* the decimal literal of n >= 0
RECURSIVE Decimal(_)
Decimal(n) ==
    IF n < 10 THEN <<DigitChars[n + 1]>>
    ELSE Append(Decimal(n \div 10), DigitChars[(n % 10) + 1])

\* a first operand
FirstLiterals ==
    { Decimal(0), Decimal(7), Decimal(INT_MAX),
      <<"0", "0">> \o Decimal(INT_MAX),
      Append(Decimal(INT_MAX \div 10), "8"),
      Append(Decimal((INT_MAX \div 10) + 1), "0"),
      Append(Decimal(INT_MAX), "0") }

\* a later operand
Literals ==
    { Decimal(0), Decimal(1), Decimal(2), Decimal(INT_MAX),
      Append(Decimal(INT_MAX \div 10), "8") }

OperatorChars == {"+", "-", "*", "/"}

Groups == { <<" ">> \o n \o <<" ", o>> : n \in Literals, o \in OperatorChars }

RECURSIVE ChainsOf(_)
ChainsOf(k) ==
    IF k = 0 THEN FirstLiterals
    ELSE { t \in { s \o g : s \in ChainsOf(k - 1), g \in Groups } :
             Len(t) <= MaxChainLen }

ChainInputs == UNION { ChainsOf(k) : k \in 0..MaxGroups }

\* the tokens ts joined by single spaces
RECURSIVE Words(_)
Words(ts) ==
    IF Len(ts) = 1 THEN ts[1]
    ELSE Words(SubSeq(ts, 1, Len(ts) - 1)) \o <<" ">> \o ts[Len(ts)]

\* inputs of the repository's tests and of its documentation, and inputs that
\* leave an operand dangling, repeat a space or an operator, or reach INT_MIN
ExampleInputs ==
    { Words(<<Decimal(1), Decimal(2), Decimal(3)>>),
      Words(<<Decimal(2004), Decimal(6), <<"/">>>>),
      Words(<<Decimal(5040), Decimal(0), <<"/">>>>),
      Words(<<Decimal(344), Decimal(1454364), <<"-">>>>),
      Words(<<Decimal(5), Decimal(5), <<"+">>, Decimal(5), <<"+">>>>),
      Words(<<Decimal(0), Decimal(5), <<"-">>, Decimal(25), <<"*">>>>),
      <<" ">> \o Words(<<Decimal(1), Decimal(1), <<"*">>>>) \o <<" ">>,
      Decimal(99999) \o Decimal(999999),
      Words(<<Decimal(1), Decimal(1), <<"+">>, Decimal(2)>>),
      Words(<<Decimal(1), Decimal(2)>>),
      Words(<<Decimal(2), Decimal(3), <<"+", "+">>>>),
      Words(<<Decimal(1), Decimal(1), <<"+", "-">>>>),
      Words(<<Decimal(1), Decimal(1), <<>>, <<"+">>>>),
      Words(<<Decimal(1), Decimal(1), <<"+">>, <<>>, <<"+">>>>),
      Words(<<Decimal(0), Decimal(1), <<"-">>, Decimal(INT_MAX), <<"-">>,
              Decimal(1), <<"/">>>>) }

Inputs == ShortInputs \cup TokenInputs \cup ChainInputs \cup ExampleInputs

(***************************************************************************)
(* evaluate_rpn as a state machine: one step per loop iteration            *)
(***************************************************************************)
Init ==
    /\ input \in Inputs
    /\ chars = <<>>
    /\ value1 = 0
    /\ value2 = 0
    /\ step = "ReadingValue1"
    /\ result = NoResult
    /\ pc = "entry"

\* s with every run of spaces made one space
RECURSIVE CollapseSpaces(_)
CollapseSpaces(s) ==
    IF Len(s) < 2 THEN s
    ELSE IF s[1] = " " /\ s[2] = " " THEN CollapseSpaces(Tail(s))
    ELSE <<s[1]>> \o CollapseSpaces(Tail(s))

\* an entry that iterates the trimmed input with its runs of spaces collapsed
EnterCollapsesSpaces ==
    /\ pc = "entry"
    /\ chars' = CollapseSpaces(trim(input))
    /\ value1' = 0
    /\ value2' = 0
    /\ step' = "ReadingValue1"
    /\ pc' = "loop"
    /\ UNCHANGED <<input, result>>

\* an entry that leaves the locals as the previous call left them
EnterKeepsLocals ==
    /\ pc = "entry"
    /\ chars' = trim(input)
    /\ pc' = "loop"
    /\ UNCHANGED <<input, result, value1, value2, step>>

\* let input = input.trim(); the three locals; input.chars()
Enter ==
    /\ pc = "entry"
    /\ chars' = trim(input)
    /\ value1' = 0
    /\ value2' = 0
    /\ step' = "ReadingValue1"
    /\ pc' = "loop"
    /\ UNCHANGED <<input, result>>

\* an iteration that leaves a space it has read at the head of the iterator
IterateKeepsSpace ==
    /\ pc = "loop"
    /\ chars # <<>>
    /\ LET r == LoopBody(Locals(value1, value2, step, result), Head(chars))
       IN  /\ value1' = r.value1
           /\ value2' = r.value2
           /\ step' = r.step
           /\ result' = r.result
           /\ pc' = IF r.result = NoResult THEN "loop" ELSE "done"
    /\ chars' = IF Head(chars) = " " THEN chars ELSE Tail(chars)
    /\ UNCHANGED input

\* one iteration of the for loop on the next character
Iterate ==
    /\ pc = "loop"
    /\ chars # <<>>
    /\ LET r == LoopBody(Locals(value1, value2, step, result), Head(chars))
       IN  /\ value1' = r.value1
           /\ value2' = r.value2
           /\ step' = r.step
           /\ result' = r.result
           /\ pc' = IF r.result = NoResult THEN "loop" ELSE "done"
    /\ chars' = Tail(chars)
    /\ UNCHANGED input

\* the exhausted iterator of an empty trimmed input reported as InputEmpty
FinishReportsEmpty ==
    /\ pc = "loop"
    /\ chars = <<>>
    /\ result' = IF trim(input) = <<>> THEN [tag |-> "InputEmpty"] ELSE Success(value1)
    /\ pc' = "done"
    /\ UNCHANGED <<input, chars, value1, value2, step>>

\* the exhausted iterator answered with the operand read last
FinishReturnsLastOperand ==
    /\ pc = "loop"
    /\ chars = <<>>
    /\ result' = Success(IF step = "ReadingValue2" THEN value2 ELSE value1)
    /\ pc' = "done"
    /\ UNCHANGED <<input, chars, value1, value2, step>>

\* the iterator is exhausted: ER::Success(value1)
Finish ==
    /\ pc = "loop"
    /\ chars = <<>>
    /\ result' = Success(value1)
    /\ pc' = "done"
    /\ UNCHANGED <<input, chars, value1, value2, step>>

Next == Enter \/ Iterate \/ Finish

Spec == Init /\ [][Next]_vars

(***************************************************************************)
(* A sequence of calls: when a call has returned the caller calls again    *)
(* with some other input; the locals of the call that returned are what    *)
(* the new call finds in place of its own until its let statements run     *)
(***************************************************************************)
CallInputs == ExampleInputs \cup UNION { TokenStrings(k) : k \in 1..MaxCallTokens }

InitCalls ==
    /\ input \in CallInputs
    /\ chars = <<>>
    /\ value1 = 0
    /\ value2 = 0
    /\ step = "ReadingValue1"
    /\ result = NoResult
    /\ pc = "entry"

\* evaluate_rpn is called again
Recall ==
    /\ pc = "done"
    /\ input' \in CallInputs
    /\ chars' = <<>>
    /\ result' = NoResult
    /\ pc' = "entry"
    /\ UNCHANGED <<value1, value2, step>>

NextCalls == Enter \/ Iterate \/ Finish \/ Recall

SpecCalls == InitCalls /\ [][NextCalls]_vars

\* a call that has started keeps running: no step of the function waits on
\* anything outside it
FairSpec == Spec /\ WF_vars(Next)

(***************************************************************************)
(* Exact integers, for stating what the evaluator should compute: a        *)
(* natural number is the sequence of its decimal digits, least significant *)
(* first and without leading zeros (zero is the empty sequence); an        *)
(* integer is a sign and a magnitude.                                      *)
(***************************************************************************)
RECURSIVE NatNorm(_)
NatNorm(a) ==
    IF a # <<>> /\ a[Len(a)] = 0 THEN NatNorm(SubSeq(a, 1, Len(a) - 1)) ELSE a

RECURSIVE NatAddC(_, _, _)
NatAddC(a, b, carry) ==
    IF a = <<>> /\ b = <<>> THEN (IF carry = 0 THEN <<>> ELSE <<carry>>)
    ELSE LET x == IF a = <<>> THEN 0 ELSE Head(a)
             y == IF b = <<>> THEN 0 ELSE Head(b)
             t == x + y + carry
         IN  <<t % 10>> \o NatAddC(IF a = <<>> THEN a ELSE Tail(a),
                                   IF b = <<>> THEN b ELSE Tail(b), t \div 10)

NatAdd(a, b) == NatAddC(a, b, 0)

\* a - b, for a >= b
RECURSIVE NatSubB(_, _, _)
NatSubB(a, b, borrow) ==
    IF a = <<>> THEN <<>>
    ELSE LET y == (IF b = <<>> THEN 0 ELSE Head(b)) + borrow
             x == Head(a)
         IN  <<IF x >= y THEN x - y ELSE x + 10 - y>>
             \o NatSubB(Tail(a), IF b = <<>> THEN b ELSE Tail(b),
                        IF x >= y THEN 0 ELSE 1)

NatSub(a, b) == NatNorm(NatSubB(a, b, 0))

\* a < b
RECURSIVE NatLessSameLen(_, _)
NatLessSameLen(a, b) ==
    IF a = <<>> THEN FALSE
    ELSE LET n == Len(a)
         IN  IF a[n] # b[n] THEN a[n] < b[n]
             ELSE NatLessSameLen(SubSeq(a, 1, n - 1), SubSeq(b, 1, n - 1))

NatLess(a, b) ==
    IF Len(a) # Len(b) THEN Len(a) < Len(b) ELSE NatLessSameLen(a, b)

NatLeq(a, b) == ~NatLess(b, a)

\* a * d, for a digit d
RECURSIVE NatMulDigitC(_, _, _)
NatMulDigitC(a, d, carry) ==
    IF a = <<>> THEN (IF carry = 0 THEN <<>> ELSE <<carry>>)
    ELSE LET t == Head(a) * d + carry
         IN  <<t % 10>> \o NatMulDigitC(Tail(a), d, t \div 10)

RECURSIVE NatMul(_, _)
NatMul(a, b) ==
    IF a = <<>> \/ b = <<>> THEN <<>>
    ELSE NatAdd(NatNorm(NatMulDigitC(a, Head(b), 0)),
                LET rest == NatMul(a, Tail(b))
                IN  IF rest = <<>> THEN <<>> ELSE <<0>> \o rest)

\* the natural number n >= 0
RECURSIVE NatOf(_)
NatOf(n) == IF n = 0 THEN <<>> ELSE <<n % 10>> \o NatOf(n \div 10)

\* the number a natural stands for, when it is at most INT_MAX
RECURSIVE NatVal(_)
NatVal(a) == IF a = <<>> THEN 0 ELSE Head(a) + 10 * NatVal(Tail(a))

Z(neg, mag) == [neg |-> neg /\ mag # <<>>, mag |-> mag]

\* the integer x of INT_MIN..INT_MAX
ZOf(x) == IF x >= 0 THEN Z(FALSE, NatOf(x)) ELSE Z(TRUE, NatAdd(NatOf(-(x + 1)), <<1>>))

ZNeg(a) == Z(~a.neg, a.mag)

ZAdd(a, b) ==
    IF a.neg = b.neg THEN Z(a.neg, NatAdd(a.mag, b.mag))
    ELSE IF NatLess(a.mag, b.mag) THEN Z(b.neg, NatSub(b.mag, a.mag))
    ELSE Z(a.neg, NatSub(a.mag, b.mag))

ZSub(a, b) == ZAdd(a, ZNeg(b))

ZMul(a, b) == Z(a.neg # b.neg, NatMul(a.mag, b.mag))

\* a lies in INT_MIN..INT_MAX
ZInRange(a) ==
    IF a.neg THEN NatLeq(a.mag, NatAdd(NatOf(INT_MAX), <<1>>))
    ELSE NatLeq(a.mag, NatOf(INT_MAX))

\* the integer of INT_MIN..INT_MAX that a is
ZVal(a) ==
    IF ~a.neg THEN NatVal(a.mag) ELSE (-NatVal(NatSub(a.mag, <<1>>))) - 1

\* the quotient of a by b > 0 rounded toward zero, for a of INT_MIN..INT_MAX
ExactQuotient(a, b) ==
    IF a >= 0 THEN a \div b
    ELSE LET m == -(a + 1)  \* |a| - 1
         IN  (-(m \div b)) - (IF m % b = b - 1 THEN 1 ELSE 0)

\* the exact value of a op b
Exact(o, a, b) ==
    CASE o = "+" -> ZAdd(ZOf(a), ZOf(b))
      [] o = "-" -> ZSub(ZOf(a), ZOf(b))
      [] o = "*" -> ZMul(ZOf(a), ZOf(b))

\* the digit a decimal character stands for
DigitOf(c) ==
    CASE c = "0" -> 0 [] c = "1" -> 1 [] c = "2" -> 2 [] c = "3" -> 3 [] c = "4" -> 4
      [] c = "5" -> 5 [] c = "6" -> 6 [] c = "7" -> 7 [] c = "8" -> 8 [] c = "9" -> 9

IsDigitChar(c) == c \in {"0", "1", "2", "3", "4", "5", "6", "7", "8", "9"}

IsDigitRun(s) == \A i \in 1..Len(s) : IsDigitChar(s[i])

\* the natural number a run of decimal characters denotes
RECURSIVE RunNat(_)
RunNat(s) ==
    IF s = <<>> THEN <<>>
    ELSE NatNorm(<<DigitOf(s[Len(s)])>> \o RunNat(SubSeq(s, 1, Len(s) - 1)))

FitsI32(s) == NatLeq(RunNat(s), NatOf(INT_MAX))

(***************************************************************************)
(* What has been read                                                      *)
(***************************************************************************)
\* the characters of the trimmed input the loop has taken so far
Consumed == SubSeq(trim(input), 1, Len(trim(input)) - Len(chars))

\* the longest run of decimal characters s ends with
RECURSIVE DigitSuffix(_)
DigitSuffix(s) ==
    IF s # <<>> /\ IsDigitChar(s[Len(s)])
    THEN Append(DigitSuffix(SubSeq(s, 1, Len(s) - 1)), s[Len(s)])
    ELSE <<>>

IsError(res) == res.tag \notin {"Success", "NoResult"}


(***************************************************************************)
(* Chains: n0, then groups ' n op'                                         *)
(***************************************************************************)
\* s cut at its spaces
RECURSIVE Split(_)
Split(s) ==
    IF \A i \in 1..Len(s) : s[i] # " " THEN <<s>>
    ELSE LET i == CHOOSE j \in 1..Len(s) :
                      s[j] = " " /\ \A k \in 1..(j - 1) : s[k] # " "
         IN  <<SubSeq(s, 1, i - 1)>> \o Split(SubSeq(s, i + 1, Len(s)))

\* a non-negative decimal literal that fits an i32
IsLiteral(t) == t # <<>> /\ IsDigitRun(t) /\ FitsI32(t)

IsOperatorToken(t) == Len(t) = 1 /\ t[1] \in {"+", "-", "*", "/"}

NumGroups(t) == (Len(t) - 1) \div 2

IsChain(s) ==
    LET t == Split(s)
    IN  /\ Len(t) % 2 = 1
        /\ IsLiteral(t[1])
        /\ \A i \in 1..NumGroups(t) : IsLiteral(t[2 * i]) /\ IsOperatorToken(t[2 * i + 1])

LiteralValue(t) == NatVal(RunNat(t))

\* the left-to-right value of the first k groups of the chain t: defined while
\* every intermediate result is an i32 and no divisor is zero
RECURSIVE ChainValue(_, _)
ChainValue(t, k) ==
    IF k = 0 THEN [defined |-> TRUE, val |-> LiteralValue(t[1])]
    ELSE LET prev == ChainValue(t, k - 1)
             b == LiteralValue(t[2 * k])
             o == t[2 * k + 1][1]
         IN  IF ~prev.defined THEN [defined |-> FALSE]
             ELSE IF o = "/"
                  THEN IF b = 0 THEN [defined |-> FALSE]
                       ELSE [defined |-> TRUE, val |-> ExactQuotient(prev.val, b)]
             ELSE LET z == Exact(o, prev.val, b)
                  IN  IF ZInRange(z) THEN [defined |-> TRUE, val |-> ZVal(z)]
                      ELSE [defined |-> FALSE]

ChainResult(s) == ChainValue(Split(s), NumGroups(Split(s)))

(***************************************************************************)
(* C1: for an input n0 followed by groups ' n op' of literals that fit an  *)
(* i32, with every intermediate result an i32 and no zero divisor, the     *)
(* call returns Success of the left-to-right value, division rounding      *)
(* toward zero; a lone literal n0 returns Success(n0).                     *)
(***************************************************************************)
C1_ChainSuccess ==
    (pc = "done" /\ IsChain(input) /\ ChainResult(input).defined)
        => result = Success(ChainResult(input).val)

\* a chain of two groups with a negative quotient that is not exact
C1_Witness ==
    /\ pc = "done"
    /\ IsChain(input)
    /\ NumGroups(Split(input)) = 2
    /\ Split(input)[5] = <<"/">>
    /\ ChainResult(input).defined
    /\ result = Success(ChainResult(input).val)
    /\ result.value < 0
    /\ result.value * LiteralValue(Split(input)[4]) # ChainValue(Split(input), 1).val


(***************************************************************************)
(* C2: evaluation stops at the first error met scanning the trimmed input  *)
(* left to right: the error that reading a character produces is the       *)
(* result of the call, and it is the result of the call on every trimmed   *)
(* input that continues the characters read so far, whatever follows.      *)
(***************************************************************************)
\* a character for each arm of the match
ContinuationChars == {" ", "3", "+", "a"}

RECURSIVE ContinuationsUpTo(_)
ContinuationsUpTo(n) ==
    IF n = 0 THEN {<<>>}
    ELSE LET shorter == ContinuationsUpTo(n - 1)
         IN  shorter \cup {Append(s, c) : s \in shorter, c \in ContinuationChars}

Continuations == ContinuationsUpTo(MaxContinuation)

C2_FirstErrorIsFinal ==
    (pc = "done" /\ IsError(result)) =>
        /\ evaluate_rpn(input) = result
        /\ \A s \in Continuations :
              LET t == Consumed \o s
              IN  trim(t) = t => evaluate_rpn(t) = result

\* an error returned with a character left unread that is an error of its own
C2_Witness ==
    /\ pc = "done"
    /\ IsError(result)
    /\ \E i \in 1..Len(chars) : chars[i] = "a"
    /\ result.tag = "FoundNonDigit"

(***************************************************************************)
(* C3: an operator character read while the step is ReadingValue1 or       *)
(* ReadingValue2 makes the call return FoundNonDigit of that character     *)
(* with no arithmetic applied; an operator as the first character of the   *)
(* trimmed input returns FoundNonDigit of it.                              *)
(***************************************************************************)
ReadsChar == pc = "loop" /\ chars # <<>>

ReadsOperatorAsOperand ==
    /\ ReadsChar
    /\ Head(chars) \in {"+", "-", "*", "/"}
    /\ step \in {"ReadingValue1", "ReadingValue2"}

C3_OperatorAsOperand ==
    /\ [][ReadsOperatorAsOperand =>
            /\ result' = FoundNonDigit(Head(chars))
            /\ pc' = "done"
            /\ value1' = value1
            /\ value2' = value2]_vars
    /\ []((pc = "done" /\ trim(input) # <<>> /\ Head(trim(input)) \in {"+", "-", "*", "/"})
            => result = FoundNonDigit(Head(trim(input))))

\* an operator read as the second operand, after a first operand that is not zero
C3_Witness ==
    /\ pc = "done"
    /\ result = FoundNonDigit("*")
    /\ step = "ReadingValue2"
    /\ value1 # 0


(***************************************************************************)
(* C4: an ASCII digit read while the step is ReadingOperator makes the     *)
(* call return FoundNonOperator of that digit and changes no register, so  *)
(* "1 2 3" returns FoundNonOperator('3'); a digit changes a register only  *)
(* while the step is ReadingValue1 or ReadingValue2.                       *)
(***************************************************************************)
ReadsDigitAsOperator ==
    /\ ReadsChar
    /\ IsDigitChar(Head(chars))
    /\ step = "ReadingOperator"

C4_DigitAsOperator ==
    /\ [][ReadsDigitAsOperator =>
            /\ result' = FoundNonOperator(Head(chars))
            /\ pc' = "done"
            /\ value1' = value1
            /\ value2' = value2]_vars
    /\ [][(ReadsChar /\ IsDigitChar(Head(chars)) /\ <<value1, value2>>' # <<value1, value2>>)
            => step \in {"ReadingValue1", "ReadingValue2"}]_vars
    /\ []((pc = "done" /\ input = Words(<<Decimal(1), Decimal(2), Decimal(3)>>))
            => result = FoundNonOperator("3"))

\* "1 2 3" has returned
C4_Witness ==
    /\ pc = "done"
    /\ input = Words(<<Decimal(1), Decimal(2), Decimal(3)>>)
    /\ result = FoundNonOperator("3")
    /\ value1 = 1
    /\ value2 = 2

(***************************************************************************)
(* C5: when the step is ReadingOperator and the character read is neither  *)
(* a digit nor an operator nor the space, the call returns                 *)
(* FoundNonOperator of that character.                                     *)
(***************************************************************************)
IsOtherChar(c) == ~IsDigitChar(c) /\ c \notin {"+", "-", "*", "/", " "}

ReadsOtherAsOperator ==
    /\ ReadsChar
    /\ IsOtherChar(Head(chars))
    /\ step = "ReadingOperator"

C5_Original ==
    [][ReadsOtherAsOperator => result' = FoundNonOperator(Head(chars))]_vars

(***************************************************************************)
(* C5, amended: when the step is ReadingOperator and the character read is *)
(* neither a digit nor an operator nor the space, the call returns         *)
(* InvalidCharacterFound of that character; FoundNonOperator is returned   *)
(* only for an ASCII digit read in ReadingOperator.                        *)
(***************************************************************************)
C5_OtherAsOperator ==
    /\ [][ReadsOtherAsOperator =>
            (result' = InvalidCharacterFound(Head(chars)) /\ pc' = "done")]_vars
    /\ [](result.tag = "FoundNonOperator"
            => (IsDigitChar(result.char) /\ step = "ReadingOperator"))

\* a letter has been read where an operator was expected
C5_Witness ==
    /\ pc = "done"
    /\ step = "ReadingOperator"
    /\ result = InvalidCharacterFound("a")

(***************************************************************************)
(* C6: a character of the trimmed input that is not the space, an ASCII    *)
(* digit or one of + - * / makes the call return InvalidCharacterFound of  *)
(* that character, in every step and whatever the registers hold; a tab or *)
(* a newline between tokens is such a character.                           *)
(***************************************************************************)
C6_InvalidCharacter ==
    [][(ReadsChar /\ IsOtherChar(Head(chars))) =>
            /\ result' = InvalidCharacterFound(Head(chars))
            /\ pc' = "done"
            /\ <<value1, value2, step>>' = <<value1, value2, step>>]_vars

\* a tab between two tokens, read where the second operand was expected
C6_Witness ==
    /\ pc = "done"
    /\ result = InvalidCharacterFound("\t")
    /\ step = "ReadingValue2"
    /\ value1 # 0
    /\ chars # <<>>


(***************************************************************************)
(* C7: while digits are accumulated in ReadingValue1 or ReadingValue2 the  *)
(* call returns InputNumberOverflow exactly when the decimal value of the  *)
(* digit run read so far exceeds 2147483647: a run of value at most        *)
(* 2147483647, leading zeros included, leaves the register equal to that   *)
(* value, and the first digit that takes the run past 2147483647 returns   *)
(* InputNumberOverflow with the register never wrapped.                    *)
(***************************************************************************)
\* the digits read since the last character that is not one
DigitRun == DigitSuffix(Consumed)

\* the register the step reads digits into
Register == IF step = "ReadingValue1" THEN value1 ELSE value2

ReadingValue == step \in {"ReadingValue1", "ReadingValue2"}

C7_InputNumberOverflow ==
    /\ (pc # "entry" /\ ReadingValue /\ ~IsError(result))
          => (FitsI32(DigitRun) /\ Register = NatVal(RunNat(DigitRun)))
    /\ (pc = "done" /\ result = InputNumberOverflow)
          => /\ ReadingValue
             /\ DigitRun # <<>>
             /\ ~FitsI32(DigitRun)
             /\ FitsI32(SubSeq(DigitRun, 1, Len(DigitRun) - 1))
             /\ Register = NatVal(RunNat(SubSeq(DigitRun, 1, Len(DigitRun) - 1)))
    /\ (pc = "done" /\ ReadingValue /\ DigitRun # <<>> /\ ~FitsI32(DigitRun))
          => result = InputNumberOverflow

\* the second operand 2147483648: the multiplication by ten fits, the addition
\* of the last digit does not
C7_Witness ==
    /\ pc = "done"
    /\ result = InputNumberOverflow
    /\ step = "ReadingValue2"
    /\ value2 = INT_MAX \div 10
    /\ value1 = 7

(***************************************************************************)
(* C8: when + - or * is applied in ReadingOperator and the exact value of  *)
(* value1 op value2 is no i32, the call returns Overflow with value1 and   *)
(* value2 as they were before the operation and the operator just read;    *)
(* value1 is only ever assigned the exact value, never a wrapped one.      *)
(***************************************************************************)
AppliesOperator(o) ==
    /\ ReadsChar
    /\ Head(chars) = o
    /\ step = "ReadingOperator"

OperationOf(o) ==
    CASE o = "+" -> "Addition"
      [] o = "-" -> "Subtraction"
      [] o = "*" -> "Multiplication"
      [] o = "/" -> "Division"

C8_Overflow ==
    [][\A o \in {"+", "-", "*"} :
          AppliesOperator(o) =>
              IF ZInRange(Exact(o, value1, value2))
              THEN /\ value1' = ZVal(Exact(o, value1, value2))
                   /\ result' = NoResult
              ELSE /\ result' = Overflow(value1, value2, OperationOf(o))
                   /\ pc' = "done"
                   /\ value1' = value1
                   /\ value2' = value2]_vars

\* a subtraction from a negative value1 that falls below the least i32
C8_Witness ==
    /\ pc = "done"
    /\ result.tag = "Overflow"
    /\ result.attempted_operation = "Subtraction"
    /\ result.last_valid_value1 < 0
    /\ result.last_valid_value2 > 0
    /\ value1 = result.last_valid_value1

(***************************************************************************)
(* C9: when / is applied in ReadingOperator with value2 = 0 the call       *)
(* returns DivByZero whatever value1 is, zero and negative values          *)
(* included; with value2 # 0 and no overflow value1 becomes the quotient   *)
(* rounded toward zero. "5040 0 /" returns DivByZero and "2004 6 /"        *)
(* returns Success(334).                                                   *)
(***************************************************************************)
\* q is the quotient of a by b # 0 rounded toward zero: the remainder a - q * b is
\* smaller than b in magnitude and, unless zero, has the sign of a
IsTruncatedQuotient(a, b, q) ==
    LET rem == ZSub(ZOf(a), ZMul(ZOf(q), ZOf(b)))
    IN  /\ NatLess(rem.mag, ZOf(b).mag)
        /\ (rem.mag = <<>> \/ rem.neg = (a < 0))

C9_Division ==
    /\ [][AppliesOperator("/") =>
            IF value2 = 0
            THEN result' = DivByZero /\ pc' = "done"
            ELSE IF value1 = INT_MIN /\ value2 = -1
            THEN result'.tag = "Overflow"
            ELSE /\ IsTruncatedQuotient(value1, value2, value1')
                 /\ result' = NoResult]_vars
    /\ []((pc = "done" /\ input = Words(<<Decimal(5040), Decimal(0), <<"/">>>>))
            => result = DivByZero)
    /\ []((pc = "done" /\ input = Words(<<Decimal(2004), Decimal(6), <<"/">>>>))
            => result = Success(334))

\* a negative value1 divided by zero
C9_Witness ==
    /\ pc = "done"
    /\ result = DivByZero
    /\ value1 < 0
    /\ value2 = 0

(***************************************************************************)
(* C10: the call never panics: to_digit is unwrapped only on a character   *)
(* that is_ascii_digit accepted, try_from only on one that                 *)
(* is_valid_rpn_operator accepted, every arithmetic step is checked, and   *)
(* every run ends in a returned EvaluationResult.                          *)
(***************************************************************************)
ReturnedTags ==
    {"Success", "InvalidCharacterFound", "FoundNonOperator", "FoundNonDigit",
     "InputNumberOverflow", "DivByZero", "Overflow"}

C10_NeverPanics ==
    /\ result # Panic
    /\ pc = "entry" => evaluate_rpn(input) # Panic
    /\ ReadsChar => LoopBody(Locals(value1, value2, step, result), Head(chars)).result # Panic
    /\ value1 \in INT_MIN..INT_MAX
    /\ value2 \in INT_MIN..INT_MAX
    /\ pc = "done" => result.tag \in ReturnedTags
    /\ pc # "done" => ENABLED Next

\* a call that unwrapped a digit and an operator and returned
C10_Witness ==
    /\ pc = "done"
    /\ result.tag = "Success"
    /\ step = "ReadingOperator"
    /\ value1 > 0
    /\ value2 > 0
    /\ input # <<>>
    /\ input[Len(input)] = "*"


(***************************************************************************)
(* C11: no call returns InputEmpty or InputNotComplete; the empty string   *)
(* and every input made only of whitespace return Success(0).              *)
(***************************************************************************)
OnlyWhitespace(s) == \A i \in 1..Len(s) : s[i] \in {" ", "\t", "\n"}

C11_NeverEmptyNorIncomplete ==
    /\ result.tag \notin {"InputEmpty", "InputNotComplete"}
    /\ (pc = "done" /\ OnlyWhitespace(input)) => result = Success(0)

\* an input of a space and a tab has returned
C11_Witness ==
    /\ pc = "done"
    /\ OnlyWhitespace(input)
    /\ \E i \in 1..Len(input) : input[i] = "\t"
    /\ \E i \in 1..Len(input) : input[i] = " "
    /\ result = Success(0)


(***************************************************************************)
(* C12: spaces before and after an input do not change the result: for    *)
(* every input s and a, b >= 0, a spaces + s + b spaces evaluates to what  *)
(* s evaluates to; the spaces after the last token advance no step and     *)
(* reset no value2.                                                        *)
(***************************************************************************)
Spaces(n) == [i \in 1..n |-> " "]

Padded(a, s, b) == Spaces(a) \o s \o Spaces(b)

C12_PaddingIgnored ==
    pc = "done" =>
        \A a, b \in 0..MaxPad :
            LET p == Padded(a, input, b)
                l == LoopLocals(InitialLocals, trim(p))
            IN  /\ evaluate_rpn(p) = result
                /\ l.step = step
                /\ l.value2 = value2
                /\ l.value1 = value1

\* " 1 1 * " has returned Success(1), the step still ReadingOperator
C12_Witness ==
    /\ pc = "done"
    /\ input = <<" ", "1", " ", "1", " ", "*", " ">>
    /\ result = Success(1)
    /\ step = "ReadingOperator"
    /\ value2 = 1


(***************************************************************************)
(* C13: every call terminates with a result: each character of the         *)
(* trimmed input is processed at most once and in order, the run ends at   *)
(* the first error or after the last character, and the result comes after *)
(* at most len(input) iterations.                                          *)
(***************************************************************************)
C13_Terminates ==
    /\ <>(pc = "done" /\ result # NoResult)
    /\ [][ReadsChar => /\ chars' = Tail(chars)
                       /\ Consumed' = Append(Consumed, Head(chars))
                       /\ (pc' = "done") = IsError(result')]_vars
    /\ [](pc # "entry" => /\ Consumed \o chars = trim(input)
                          /\ Len(Consumed) <= Len(input))
    /\ [](pc = "loop" => result = NoResult)
    /\ [](pc = "done" => IsError(result) \/ (chars = <<>> /\ result = Success(value1)))

\* a call has returned after reading every character of an input of
\* five or more characters
C13_Witness ==
    /\ pc = "done"
    /\ Len(input) >= 5
    /\ Consumed = input
    /\ result.tag = "Success"


(***************************************************************************)
(* C14: evaluate_rpn is deterministic and keeps no state between calls:    *)
(* whatever calls came before, a call returns what its input alone         *)
(* determines, and it starts from value1 = 0, value2 = 0 and the step      *)
(* ReadingValue1.                                                          *)
(***************************************************************************)
C14_NoStateBetweenCalls ==
    /\ [](pc = "done" => result = evaluate_rpn(input))
    /\ [][pc = "entry" /\ pc' = "loop"
            => value1' = 0 /\ value2' = 0 /\ step' = "ReadingValue1"]_vars

\* a call is about to start where an earlier call has left other values
C14_Witness ==
    /\ pc = "entry"
    /\ value1 # 0
    /\ value2 # 0
    /\ step = "ReadingOperator"
    /\ input = Words(<<Decimal(1), Decimal(2)>>)


(***************************************************************************)
(* C15: a Success result carries the final value1, never value2: when the  *)
(* input ends while the step is ReadingValue2 the operand read last is     *)
(* ignored, the result is the Success the input without that operand       *)
(* gives ("1 1 + 2" gives 2, "1 2" gives 1), and nothing reports the       *)
(* expression as incomplete.                                               *)
(***************************************************************************)
\* the trimmed input without the run of digits it ends with
WithoutLastOperand ==
    LET t == trim(input) IN SubSeq(t, 1, Len(t) - Len(DigitSuffix(t)))

EndsInReadingValue2 ==
    pc = "done" /\ result.tag = "Success" /\ step = "ReadingValue2"

C15_SuccessCarriesValue1 ==
    /\ result.tag = "Success" => result = Success(value1)
    /\ result.tag # "InputNotComplete"
    /\ EndsInReadingValue2 => result = evaluate_rpn(WithoutLastOperand)
    /\ (pc = "done" /\ input = Words(<<Decimal(1), Decimal(1), <<"+">>, Decimal(2)>>))
           => result = Success(2)
    /\ (pc = "done" /\ input = Words(<<Decimal(1), Decimal(2)>>))
           => result = Success(1)

\* "1 2" has returned Success(1) with 2 in value2
C15_Witness ==
    /\ EndsInReadingValue2
    /\ input = Words(<<Decimal(1), Decimal(2)>>)
    /\ value2 = 2
    /\ result = Success(1)


(***************************************************************************)
(* C16: the step changes only when a space is read, and then by the cycle  *)
(* ReadingValue1 -> ReadingValue2 -> ReadingOperator -> ReadingValue2 ...; *)
(* digits and operators leave it unchanged, and once the step has left     *)
(* ReadingValue1 it is never ReadingValue1 again in that evaluation.       *)
(***************************************************************************)
ReadsSpace == ReadsChar /\ Head(chars) = " "

StepAfter(s) ==
    IF s = "ReadingValue2" THEN "ReadingOperator" ELSE "ReadingValue2"

C16_StepCycle ==
    [][/\ ReadsSpace => step' = StepAfter(step)
       /\ ~ReadsSpace => step' = step
       /\ step # "ReadingValue1" => step' # "ReadingValue1"]_vars

\* a space after an operator has moved the step back to ReadingValue2
C16_Witness ==
    /\ pc = "loop"
    /\ step = "ReadingValue2"
    /\ Len(Consumed) >= 6
    /\ Consumed[Len(Consumed)] = " "
    /\ Consumed[Len(Consumed) - 1] \in OperatorChars


(***************************************************************************)
(* C17: runs of spaces are not collapsed: every space read advances the    *)
(* step once, so two spaces in a row move ReadingValue1 to ReadingOperator *)
(* (an operator is then applied with value2 = 0) and ReadingOperator back  *)
(* to ReadingOperator through ReadingValue2, which resets value2 to 0.     *)
(***************************************************************************)
RECURSIVE NumSpaces(_)
NumSpaces(s) ==
    IF s = <<>> THEN 0
    ELSE (IF Head(s) = " " THEN 1 ELSE 0) + NumSpaces(Tail(s))

\* the step after n spaces
StepOfSpaces(n) ==
    IF n = 0 THEN "ReadingValue1"
    ELSE IF n % 2 = 1 THEN "ReadingValue2"
    ELSE "ReadingOperator"

EndsWithTwoSpaces(s) ==
    Len(s) >= 2 /\ s[Len(s)] = " " /\ s[Len(s) - 1] = " "

C17_SpacesNotCollapsed ==
    /\ pc # "entry" => step = StepOfSpaces(NumSpaces(Consumed))
    /\ (pc # "entry" /\ EndsWithTwoSpaces(Consumed)) =>
          LET before == StepOfSpaces(NumSpaces(Consumed) - 2)
          IN  /\ value2 = 0
              /\ before = "ReadingValue1" => step = "ReadingOperator"
              /\ before = "ReadingOperator" => step = "ReadingOperator"
    /\ (pc = "done" /\ input = <<"3", " ", " ", "+">>) => result = Success(3)
    /\ (pc = "done" /\ input = <<"3", " ", " ", "/">>) => result = DivByZero
    /\ (pc = "done" /\ input = Words(<<Decimal(1), Decimal(1), <<>>, <<"+">>>>))
           => result = FoundNonDigit("+")
    /\ (pc = "done" /\ input = Words(<<Decimal(1), Decimal(1), <<"+">>, <<>>, <<"+">>>>))
           => result = Success(2)

\* "1 1 +  +": two spaces after an operator, and the second operator has
\* added a value2 of 0
C17_Witness ==
    /\ pc = "done"
    /\ input = Words(<<Decimal(1), Decimal(1), <<"+">>, <<>>, <<"+">>>>)
    /\ step = "ReadingOperator"
    /\ value2 = 0
    /\ result = Success(2)


(***************************************************************************)
(* C18: value2 is reset to 0 exactly on a space that moves the step into   *)
(* ReadingValue2, so each right operand of a chain starts from 0           *)
(* ("5 5 + 5 +" gives 15); a space that moves the step into                *)
(* ReadingOperator leaves value2 unchanged, no space changes value1,       *)
(* digits read in ReadingValue2 leave value1 unchanged and digits read in  *)
(* ReadingValue1 leave value2 unchanged.                                   *)
(***************************************************************************)
ReadsDigit == ReadsChar /\ IsDigitChar(Head(chars))

C18_Value2Reset ==
    /\ [][/\ (ReadsSpace /\ step' = "ReadingValue2") => value2' = 0
          /\ (ReadsSpace /\ step' = "ReadingOperator") => value2' = value2
          /\ (value2 # 0 /\ value2' = 0) => (ReadsSpace /\ step' = "ReadingValue2")
          /\ ReadsSpace => value1' = value1
          /\ (ReadsDigit /\ step = "ReadingValue2") => value1' = value1
          /\ (ReadsDigit /\ step = "ReadingValue1") => value2' = value2]_vars
    /\ []((pc = "done" /\ input = Words(<<Decimal(5), Decimal(5), <<"+">>,
                                          Decimal(5), <<"+">>>>))
             => result = Success(15))

\* in "5 5 + 5 +" the space after the first operator has reset value2
C18_Witness ==
    /\ pc = "loop"
    /\ input = Words(<<Decimal(5), Decimal(5), <<"+">>, Decimal(5), <<"+">>>>)
    /\ Consumed = Words(<<Decimal(5), Decimal(5), <<"+">>, <<>>>>)
    /\ step = "ReadingValue2"
    /\ value1 = 10
    /\ value2 = 0


(***************************************************************************)
(* C19: value2 is in 0..2147483647 in every reachable state while value1   *)
(* can reach -2147483648; the checked division therefore fails only for    *)
(* value2 = 0, and no input returns Overflow with the operation Division.  *)
(***************************************************************************)
C19_Value2NonNegative ==
    /\ value2 \in 0..INT_MAX
    /\ value1 \in INT_MIN..INT_MAX
    /\ (pc = "loop" /\ step = "ReadingOperator")
           => (checked_div(value1, value2) = None) = (value2 = 0)
    /\ ~(result.tag = "Overflow" /\ result.attempted_operation = "Division")

\* "0 1 - 2147483647 - 1 /": value1 has reached -2147483648 and the
\* division by 1 has returned it
C19_Witness ==
    /\ pc = "done"
    /\ value1 = INT_MIN
    /\ value2 = 1
    /\ Consumed # <<>>
    /\ Consumed[Len(Consumed)] = "/"
    /\ result = Success(INT_MIN)


(***************************************************************************)
(* C20: applying an operator leaves the step at ReadingOperator and        *)
(* value2 unchanged, so operator characters written with no space between  *)
(* them are applied one after the other to the running value1 with the     *)
(* same value2: "2 3 ++" gives Success(8) and "1 1 +-" gives Success(1).   *)
(***************************************************************************)
C20_OperatorKeepsStep ==
    /\ [][\A o \in OperatorChars :
            (AppliesOperator(o) /\ result' = NoResult) =>
                /\ step' = "ReadingOperator"
                /\ value2' = value2
                /\ value1' = Checked(OperationOf(o), value1, value2).val]_vars
    /\ []((pc = "done" /\ input = Words(<<Decimal(2), Decimal(3), <<"+", "+">>>>))
             => result = Success(8))
    /\ []((pc = "done" /\ input = Words(<<Decimal(1), Decimal(1), <<"+", "-">>>>))
             => result = Success(1))

\* "2 3 ++" has returned Success(8), value2 still 3
C20_Witness ==
    /\ pc = "done"
    /\ input = Words(<<Decimal(2), Decimal(3), <<"+", "+">>>>)
    /\ step = "ReadingOperator"
    /\ value2 = 3
    /\ result = Success(8)


====
